---- MODULE Spec2Model ----
(***************************************************************************)
(* Board interaction controller of master-program/src/main.rs: the game    *)
(* loop (main), the board FSM (update_state), the LED projector (get_rgb)  *)
(* and the path planner (move_to_steps, capture_piece), over a model of    *)
(* the shakmaty rules oracle the code calls (role_at, attacks_from,        *)
(* attacks_to, is_legal, play, is_game_over, San::from_move).              *)
(***************************************************************************)
EXTENDS Integers, Sequences, FiniteSets, TLC

VARIABLES pos, state, mv, hist, aborted, pc, plies,
          captured_whites, captured_blacks, opp_mv, steps, sent, recvd,
          user_input, line, move_san, toggled

vars == <<pos, state, mv, hist, aborted, pc, plies,
          captured_whites, captured_blacks, opp_mv, steps, sent, recvd,
          user_input, line, move_san, toggled>>

(***************************************************************************)
(* Squares, files, ranks (shakmaty::Square is 0..63, rank-major).          *)
(***************************************************************************)
Squares == 0 .. 63

File(s) == (s % 8) + 1

Rank(s) == (s \div 8) + 1

Sq(f, r) == (r - 1) * 8 + (f - 1)

Abs(x) == IF x < 0 THEN 0 - x ELSE x

Sgn(x) == IF x < 0 THEN 0 - 1 ELSE IF x > 0 THEN 1 ELSE 0

Max(a, b) == IF a > b THEN a ELSE b

Other(c) == IF c = "White" THEN "Black" ELSE "White"

\* Squares the FSM and the LED projector name literally.
A1 == 0
C1 == 2
D1 == 3
F1 == 5
G1 == 6
A8 == 56
C8 == 58
D8 == 59
F8 == 61
G8 == 62

NoSquare == 0 - 1

(***************************************************************************)
(* Board and position.                                                     *)
(***************************************************************************)
Empty == [color |-> "None", role |-> "None"]

Pc(c, r) == [color |-> c, role |-> r]

occupied_of(board) == {s \in Squares : board[s].role # "None"}

by_color(board, c) == {s \in Squares : board[s].color = c}

role_at(board, s) == board[s].role

\* No piece stands strictly between s and t (s and t on a common line).
Clear(occ, s, t) ==
    LET df == File(t) - File(s)
        dr == Rank(t) - Rank(s)
        n  == Max(Abs(df), Abs(dr))
        d  == Sgn(df) + 8 * Sgn(dr)
    IN \A j \in 1 .. (n - 1) : (s + j * d) \notin occ

\* shakmaty::attacks::attacks: does a piece (c, r) on s attack t.
Attacks(c, r, s, t, occ) ==
    LET df == File(t) - File(s)
        dr == Rank(t) - Rank(s)
    IN  /\ s # t
        /\ CASE r = "Pawn"   -> Abs(df) = 1 /\ dr = (IF c = "White" THEN 1 ELSE 0 - 1)
             [] r = "Knight" -> {Abs(df), Abs(dr)} = {1, 2}
             [] r = "King"   -> Abs(df) <= 1 /\ Abs(dr) <= 1
             [] r = "Bishop" -> Abs(df) = Abs(dr) /\ Clear(occ, s, t)
             [] r = "Rook"   -> (df = 0 \/ dr = 0) /\ Clear(occ, s, t)
             [] r = "Queen"  -> (df = 0 \/ dr = 0 \/ Abs(df) = Abs(dr)) /\ Clear(occ, s, t)
             [] OTHER        -> FALSE

\* Board::attacks_from(sq): empty for an empty square.
attacks_from(board, s) ==
    LET occ == occupied_of(board)
    IN  {t \in Squares : Attacks(board[s].color, board[s].role, s, t, occ)}

\* Board::attacks_to(sq, attacker, occupied): the attacker's pieces that attack sq.
attacks_to(board, t, attacker, occ) ==
    {s \in Squares : board[s].color = attacker
                     /\ Attacks(attacker, board[s].role, s, t, occ)}

\* Position::king_attackers(square, attacker, occupied) is attacks_to on the board.
king_attackers(board, t, attacker, occ) == attacks_to(board, t, attacker, occ)

KingSquares(board, c) == {s \in Squares : board[s] = Pc(c, "King")}

InCheck(board, c) ==
    \E k \in KingSquares(board, c) :
        attacks_to(board, k, Other(c), occupied_of(board)) # {}

(***************************************************************************)
(* Moves (shakmaty::Move).  A Castle carries from = king, to = rook.       *)
(***************************************************************************)
NoMove == [kind |-> "None", role |-> "None", from |-> NoSquare, to |-> NoSquare,
           capture |-> "None", promotion |-> "None"]

Normal(r, f, cap, t, promo) ==
    [kind |-> "Normal", role |-> r, from |-> f, to |-> t,
     capture |-> cap, promotion |-> promo]

Castle(king, rook) ==
    [kind |-> "Castle", role |-> "King", from |-> king, to |-> rook,
     capture |-> "None", promotion |-> "None"]

EnPassant(f, t) ==
    [kind |-> "EnPassant", role |-> "Pawn", from |-> f, to |-> t,
     capture |-> "Pawn", promotion |-> "None"]

LastRank(c) == IF c = "White" THEN 8 ELSE 1

HomeRank(c) == IF c = "White" THEN 2 ELSE 7

Fwd(c) == IF c = "White" THEN 8 ELSE 0 - 8

\* King and rook landing squares of a castle, by the side of the rook.
KingLanding(king, rook) == Sq(IF rook < king THEN 3 ELSE 7, Rank(king))

RookLanding(king, rook) == Sq(IF rook < king THEN 4 ELSE 6, Rank(king))

\* The board after a move (Position::play_unchecked, board part).
BoardAfter(board, c, m) ==
    CASE m.kind = "Normal" ->
            [board EXCEPT ![m.from] = Empty,
                          ![m.to] = Pc(c, IF m.promotion # "None" THEN m.promotion
                                          ELSE m.role)]
      [] m.kind = "EnPassant" ->
            [board EXCEPT ![m.from] = Empty,
                          ![m.to] = Pc(c, "Pawn"),
                          ![Sq(File(m.to), Rank(m.from))] = Empty]
      [] m.kind = "Castle" ->
            [s \in Squares |->
                IF s = KingLanding(m.from, m.to) THEN Pc(c, "King")
                ELSE IF s = RookLanding(m.from, m.to) THEN Pc(c, "Rook")
                ELSE IF s = m.from \/ s = m.to THEN Empty
                ELSE board[s]]
      [] OTHER -> board

\* The move obeys the piece's movement rules, king safety aside.
PseudoLegal(p, m) ==
    LET b   == p.board
        c   == p.turn
        occ == occupied_of(b)
    IN
    CASE m.kind = "Normal" ->
            /\ m.from \in Squares /\ m.to \in Squares
            /\ b[m.from] = Pc(c, m.role)
            /\ b[m.to].color # c
            /\ m.capture = b[m.to].role
            /\ IF m.role = "Pawn"
               THEN /\ IF m.capture = "None"
                       THEN \/ m.to = m.from + Fwd(c)
                            \/ /\ m.to = m.from + 2 * Fwd(c)
                               /\ Rank(m.from) = HomeRank(c)
                               /\ (m.from + Fwd(c)) \notin occ
                       ELSE Attacks(c, "Pawn", m.from, m.to, occ)
                    /\ IF Rank(m.to) = LastRank(c)
                       THEN m.promotion \in {"Queen", "Rook", "Bishop", "Knight"}
                       ELSE m.promotion = "None"
               ELSE /\ Attacks(c, m.role, m.from, m.to, occ)
                    /\ m.promotion = "None"
      [] m.kind = "EnPassant" ->
            /\ m.from \in Squares /\ m.to \in Squares
            /\ b[m.from] = Pc(c, "Pawn")
            /\ p.ep = m.to
            /\ Attacks(c, "Pawn", m.from, m.to, occ)
            /\ b[m.to] = Empty
            /\ b[Sq(File(m.to), Rank(m.from))] = Pc(Other(c), "Pawn")
      [] m.kind = "Castle" ->
            /\ m.from \in Squares /\ m.to \in Squares
            /\ b[m.from] = Pc(c, "King")
            /\ b[m.to] = Pc(c, "Rook")
            /\ m.to \in p.castles
            /\ Rank(m.from) = Rank(m.to)
            /\ Clear(occ, m.from, m.to)
            /\ \A s \in Squares :
                  (/\ Rank(s) = Rank(m.from)
                   /\ File(s) >= (IF m.to < m.from THEN 3 ELSE File(m.from))
                   /\ File(s) <= (IF m.to < m.from THEN File(m.from) ELSE 7))
                  => attacks_to(b, s, Other(c), occ) = {}
      [] OTHER -> FALSE

\* Position::is_legal(&mv): mv is one of the position's legal moves.
is_legal(p, m) ==
    /\ PseudoLegal(p, m)
    /\ ~InCheck(BoardAfter(p.board, p.turn, m), p.turn)

\* Position::play(&mv), for a legal move.
play(p, m) ==
    LET c == p.turn
        lost == (IF m.role = "King" THEN {r \in p.castles : p.board[r].color = c}
                 ELSE {}) \cup {m.from, m.to}
    IN [board   |-> BoardAfter(p.board, c, m),
        turn    |-> Other(c),
        castles |-> p.castles \ lost,
        ep      |-> IF m.kind = "Normal" /\ m.role = "Pawn"
                       /\ m.to = m.from + 2 * Fwd(c)
                    THEN m.from + Fwd(c) ELSE NoSquare]

PromoRoles(r, t, c) ==
    IF r = "Pawn" /\ Rank(t) = LastRank(c)
    THEN {"Queen", "Rook", "Bishop", "Knight"} ELSE {"None"}

\* The moves a piece on f can make by its movement rules, legal or not.
Candidates(p, f) ==
    LET b  == p.board
        c  == p.turn
        targets == attacks_from(b, f)
                   \cup (IF b[f].role = "Pawn"
                         THEN {f + Fwd(c), f + 2 * Fwd(c)} \cap Squares ELSE {})
    IN  UNION { {Normal(b[f].role, f, b[t].role, t, pr) :
                    pr \in PromoRoles(b[f].role, t, c)} : t \in targets }
        \cup (IF b[f].role = "Pawn" /\ p.ep # NoSquare
              THEN {EnPassant(f, p.ep)} ELSE {})
        \cup (IF b[f].role = "King"
              THEN {Castle(f, r) : r \in p.castles} ELSE {})

\* Position::legal_moves().
legal_moves(p) ==
    {m \in UNION {Candidates(p, f) : f \in by_color(p.board, p.turn)} : is_legal(p, m)}

\* legal_moves().is_empty(), without building the list.
no_legal_moves(p) ==
    \A f \in by_color(p.board, p.turn) : \A m \in Candidates(p, f) : ~is_legal(p, m)

(***************************************************************************)
(* San::from_move(&pos, &mv): the move in standard algebraic notation.  A   *)
(* piece move names the file or the rank of its origin when another legal  *)
(* move of pos brings a piece of the same role to the same square.  file   *)
(* and rank are 0 where the notation leaves them out.                      *)
(***************************************************************************)
NoSan == [kind |-> "None"]

SanNormal(role, file, rank, capture, to, promotion) ==
    [kind |-> "Normal", role |-> role, file |-> file, rank |-> rank,
     capture |-> capture, to |-> to, promotion |-> promotion]

SanCastle(side) == [kind |-> "Castle", side |-> side]

\* Position::san_candidates(role, to): the legal moves of role to the square.
san_candidates(p, role, to) ==
    LET pieces == {f \in by_color(p.board, p.turn) : p.board[f].role = role}
    IN  {m \in UNION {Candidates(p, f) : f \in pieces} : m.to = to /\ is_legal(p, m)}

\* San::disambiguate(m, moves).
disambiguate(m, moves) ==
    CASE m.kind = "Normal" /\ m.role = "Pawn" ->
            SanNormal("Pawn", IF m.capture # "None" THEN File(m.from) ELSE 0, 0,
                      m.capture # "None", m.to, m.promotion)
      [] m.kind = "Normal" /\ m.role # "Pawn" ->
            LET others == {c \in moves : /\ c.kind = "Normal"
                                         /\ c.role = m.role
                                         /\ c.to = m.to
                                         /\ c.from # m.from}
                byFile(c) == Rank(m.from) = Rank(c.from) \/ File(m.from) # File(c.from)
                file == \E c \in others : byFile(c)
                rank == \E c \in others : ~byFile(c)
            IN  SanNormal(m.role, IF file THEN File(m.from) ELSE 0,
                          IF rank THEN Rank(m.from) ELSE 0,
                          m.capture # "None", m.to, m.promotion)
      [] m.kind = "EnPassant" ->
            SanNormal("Pawn", File(m.from), 0, TRUE, m.to, "None")
      [] m.kind = "Castle" ->
            SanCastle(IF File(m.to) < File(m.from) THEN "QueenSide" ELSE "KingSide")
      [] OTHER -> NoSan

San_from_move(p, m) ==
    disambiguate(m, IF m.kind = "Normal" /\ m.role # "Pawn"
                    THEN san_candidates(p, m.role, m.to) ELSE {})

(***************************************************************************)
(* enum State (main.rs 474-485).  Unused square slots hold NoSquare; the    *)
(* Option<Square> of InvalidPiecePU is NoSquare for None.                   *)
(***************************************************************************)
St(tag, a, b, c) == [tag |-> tag, a |-> a, b |-> b, c |-> c]

Idle == St("Idle", NoSquare, NoSquare, NoSquare)

FriendlyPU(s) == St("FriendlyPU", s, NoSquare, NoSquare)

EnemyPU(s) == St("EnemyPU", s, NoSquare, NoSquare)

FriendlyAndEnemyPU(f, e) == St("FriendlyAndEnemyPU", f, e, NoSquare)

Castling(k, r) == St("Castling", k, r, NoSquare)

CastlingPutRookDown(k, r, t) == St("CastlingPutRookDown", k, r, t)

InvalidPiecePU(pp, p) == St("InvalidPiecePU", pp, p, NoSquare)

InvalidMove(f, t) == St("InvalidMove", f, t, NoSquare)

Error == St("Error", NoSquare, NoSquare, NoSquare)

\* What update_state hands back: (State, Option<Move>), or a panic of an unwrap.
Ret(s, m) == [state |-> s, mv |-> m, panic |-> FALSE]

Panic == [state |-> Error, mv |-> NoMove, panic |-> TRUE]

(***************************************************************************)
(* update_state, one operator per match arm.                               *)
(***************************************************************************)
FromIdle(position, square) ==
    LET color      == position.turn
        board      == position.board
        occupied   == occupied_of(board)
        friendlies == by_color(board, color)
        enemies    == by_color(board, Other(color))
    IN  IF square \in friendlies THEN Ret(FriendlyPU(square), NoMove)
        ELSE IF square \in enemies
        THEN IF attacks_to(board, square, color, occupied) # {}
             THEN Ret(EnemyPU(square), NoMove)
             ELSE Ret(InvalidPiecePU(NoSquare, square), NoMove)
        ELSE Ret(Error, NoMove)

FromFriendlyPU(position, square, prev_square) ==
    LET color      == position.turn
        board      == position.board
        friendlies == by_color(board, color)
        enemies    == by_color(board, Other(color))
        role_picked_up == role_at(board, prev_square)
        can_capture == attacks_from(board, prev_square) \cap enemies
    IN  IF role_picked_up = "None" THEN Panic
        ELSE IF prev_square = square THEN Ret(Idle, NoMove)
        ELSE IF role_picked_up = "Rook" /\ role_at(board, square) = "King"
        THEN IF is_legal(position, Castle(square, prev_square))
             THEN Ret(Castling(square, prev_square), NoMove)
             ELSE Ret(InvalidPiecePU(prev_square, square), NoMove)
        ELSE IF role_picked_up = "King" /\ role_at(board, square) = "Rook"
        THEN IF is_legal(position, Castle(prev_square, square))
             THEN Ret(Castling(prev_square, square), NoMove)
             ELSE Ret(InvalidPiecePU(prev_square, square), NoMove)
        ELSE IF square \in friendlies
                \/ (square \in enemies /\ square \notin can_capture)
        THEN Ret(InvalidPiecePU(prev_square, square), NoMove)
        ELSE IF square \in can_capture
        THEN Ret(FriendlyAndEnemyPU(prev_square, square), NoMove)
        ELSE IF role_picked_up = "Pawn" /\ (Rank(square) = 1 \/ Rank(square) = 8)
        THEN Ret(Idle, Normal("Pawn", prev_square, "None", square, "Queen"))
        ELSE IF is_legal(position, Normal(role_picked_up, prev_square, "None", square, "None"))
             THEN Ret(Idle, Normal(role_picked_up, prev_square, "None", square, "None"))
             ELSE Ret(InvalidMove(prev_square, square), NoMove)

\* Mutant of FromEnemyPU: the squares of FriendlyAndEnemyPU are swapped.
FromEnemyPU_Swapped(position, square, prev_square) ==
    LET color    == position.turn
        board    == position.board
        occupied == occupied_of(board)
        enemies  == by_color(board, Other(color))
        attackers == attacks_to(board, prev_square, color, occupied)
    IN  IF prev_square = square THEN Ret(Idle, NoMove)
        ELSE IF square \notin attackers \/ square \in enemies
        THEN Ret(InvalidPiecePU(prev_square, square), NoMove)
        ELSE IF role_at(board, square) = "King"
                /\ king_attackers(board, prev_square, Other(color), occupied) # {}
        THEN Ret(InvalidPiecePU(prev_square, square), NoMove)
        ELSE Ret(FriendlyAndEnemyPU(prev_square, square), NoMove)

\* FromEnemyPU without the clause of lines 341-344 (the role at square is
\* King and prev_square is attacked by the enemy).
FromEnemyPU_NoKingCheck(position, square, prev_square) ==
    LET color    == position.turn
        board    == position.board
        occupied == occupied_of(board)
        enemies  == by_color(board, Other(color))
        attackers == attacks_to(board, prev_square, color, occupied)
    IN  IF prev_square = square THEN Ret(Idle, NoMove)
        ELSE IF square \notin attackers \/ square \in enemies
        THEN Ret(InvalidPiecePU(prev_square, square), NoMove)
        ELSE IF square \in attackers
        THEN Ret(FriendlyAndEnemyPU(square, prev_square), NoMove)
        ELSE Ret(Error, NoMove)

FromEnemyPU(position, square, prev_square) ==
    LET color    == position.turn
        board    == position.board
        occupied == occupied_of(board)
        enemies  == by_color(board, Other(color))
        attackers == attacks_to(board, prev_square, color, occupied)
    IN  IF prev_square = square THEN Ret(Idle, NoMove)
        ELSE IF square \notin attackers \/ square \in enemies
        THEN Ret(InvalidPiecePU(prev_square, square), NoMove)
        ELSE IF role_at(board, square) = "None" THEN Panic
        ELSE IF role_at(board, square) = "King"
                /\ king_attackers(board, prev_square, Other(color), occupied) # {}
        THEN Ret(InvalidPiecePU(prev_square, square), NoMove)
        ELSE IF square \in attackers
        THEN Ret(FriendlyAndEnemyPU(square, prev_square), NoMove)
        ELSE Ret(Error, NoMove)

\* Mutant of FromFriendlyAndEnemyPU: the capture is returned with the state
\* left as it was.
FromFriendlyAndEnemyPU_KeepsState(position, square, prev_friendly_square, prev_enemy_square) ==
    LET board == position.board
        role_picked_up == role_at(board, prev_friendly_square)
        kept == FriendlyAndEnemyPU(prev_friendly_square, prev_enemy_square)
    IN  IF role_picked_up = "None" THEN Panic
        ELSE IF square = prev_friendly_square
        THEN Ret(EnemyPU(prev_enemy_square), NoMove)
        ELSE IF square = prev_enemy_square
        THEN IF role_picked_up = "Pawn" /\ (Rank(square) = 1 \/ Rank(square) = 8)
             THEN Ret(kept, Normal(role_picked_up, prev_friendly_square,
                                   role_at(board, prev_enemy_square), square, "Queen"))
             ELSE Ret(kept, Normal(role_picked_up, prev_friendly_square,
                                   role_at(board, prev_enemy_square), square, "None"))
        ELSE Ret(Error, NoMove)

FromFriendlyAndEnemyPU(position, square, prev_friendly_square, prev_enemy_square) ==
    LET board == position.board
        role_picked_up == role_at(board, prev_friendly_square)
    IN  IF role_picked_up = "None" THEN Panic
        ELSE IF square = prev_friendly_square
        THEN Ret(EnemyPU(prev_enemy_square), NoMove)
        ELSE IF square = prev_enemy_square
        THEN IF role_picked_up = "Pawn" /\ (Rank(square) = 1 \/ Rank(square) = 8)
             THEN Ret(Idle, Normal(role_picked_up, prev_friendly_square,
                                   role_at(board, prev_enemy_square), square, "Queen"))
             ELSE Ret(Idle, Normal(role_picked_up, prev_friendly_square,
                                   role_at(board, prev_enemy_square), square, "None"))
        ELSE Ret(Error, NoMove)

\* Mutant of FromCastling: the wings are confused, the a-file rook sends the
\* king to the g-file.
FromCastling_WrongWing(position, square, king_square, rook_square) ==
    LET home == IF position.turn = "White" THEN 1 ELSE 8
        king_to == IF File(rook_square) = 1 THEN Sq(7, home) ELSE Sq(3, home)
        rook_to == IF File(rook_square) = 1 THEN Sq(6, home) ELSE Sq(4, home)
    IN  IF square = king_to
        THEN Ret(CastlingPutRookDown(king_square, rook_square, rook_to), NoMove)
        ELSE Ret(Error, NoMove)

FromCastling(position, square, king_square, rook_square) ==
    LET color == position.turn
    IN  IF color = "White"
        THEN IF File(rook_square) = 1
             THEN IF square = C1
                  THEN Ret(CastlingPutRookDown(king_square, rook_square, D1), NoMove)
                  ELSE Ret(Error, NoMove)
             ELSE IF square = G1
                  THEN Ret(CastlingPutRookDown(king_square, rook_square, F1), NoMove)
                  ELSE Ret(Error, NoMove)
        ELSE IF File(rook_square) = 1
             THEN IF square = C8
                  THEN Ret(CastlingPutRookDown(king_square, rook_square, D8), NoMove)
                  ELSE Ret(Error, NoMove)
             ELSE IF square = G8
                  THEN Ret(CastlingPutRookDown(king_square, rook_square, F8), NoMove)
                  ELSE Ret(Error, NoMove)

FromCastlingPutRookDown(square, king_square, rook_square, target_square) ==
    IF square = target_square
    THEN Ret(Idle, Castle(king_square, rook_square))
    ELSE Ret(Error, NoMove)

\* Mutant of FromInvalidPiecePU: the recovery forgets the earlier state.
FromInvalidPiecePU_Forgets(position, square, prev_prev_square, prev_square) ==
    IF square = prev_square THEN Ret(Idle, NoMove) ELSE Ret(Error, NoMove)

FromInvalidPiecePU(position, square, prev_prev_square, prev_square) ==
    LET color      == position.turn
        board      == position.board
        friendlies == by_color(board, color)
        enemies    == by_color(board, Other(color))
    IN  IF square = prev_square /\ prev_prev_square = NoSquare
        THEN Ret(Idle, NoMove)
        ELSE IF square = prev_square /\ prev_prev_square \in friendlies
        THEN Ret(FriendlyPU(prev_prev_square), NoMove)
        ELSE IF square = prev_square /\ prev_prev_square \in enemies
        THEN Ret(EnemyPU(prev_prev_square), NoMove)
        ELSE Ret(Error, NoMove)

FromInvalidMove(square, prev_prev_square, prev_square) ==
    IF square = prev_square
    THEN Ret(FriendlyPU(prev_prev_square), NoMove)
    ELSE Ret(Error, NoMove)

\* Mutant of FromError: an event in Error resets the FSM.
FromError_Resets == Ret(Idle, NoMove)

FromError == Ret(Error, NoMove)

update_state(position, instruction, st) ==
    CASE st.tag = "Idle" -> FromIdle(position, instruction)
      [] st.tag = "FriendlyPU" -> FromFriendlyPU(position, instruction, st.a)
      [] st.tag = "EnemyPU" -> FromEnemyPU(position, instruction, st.a)
      [] st.tag = "FriendlyAndEnemyPU" ->
            FromFriendlyAndEnemyPU(position, instruction, st.a, st.b)
      [] st.tag = "Castling" -> FromCastling(position, instruction, st.a, st.b)
      [] st.tag = "CastlingPutRookDown" ->
            FromCastlingPutRookDown(instruction, st.a, st.b, st.c)
      [] st.tag = "InvalidPiecePU" ->
            FromInvalidPiecePU(position, instruction, st.a, st.b)
      [] st.tag = "InvalidMove" -> FromInvalidMove(instruction, st.a, st.b)
      [] OTHER -> FromError

(***************************************************************************)
(* get_rgb: the squares lit in each colour channel.  panic is the unwrap   *)
(* of line 143 on an empty square.                                         *)
(***************************************************************************)
RGB(r, g, b) == [r |-> r, g |-> g, b |-> b, panic |-> FALSE]

RgbPanic == [r |-> {}, g |-> {}, b |-> {}, panic |-> TRUE]

\* Bitboard::from_square(square).shift(offset): a bit shifted off the board
\* is lost.
Shift(square, offset) == {square + offset} \cap Squares

\* Lines 141-163: the empty squares the lifted piece may be put on.
canmv_to(position, square) ==
    LET color    == position.turn
        board    == position.board
        occupied == occupied_of(board)
    IN  IF role_at(board, square) = "Pawn"
        THEN LET shift_direction == IF color = "White" THEN 1 ELSE 0 - 1
                 one == Shift(square, 8 * shift_direction)
                 two == IF /\ \/ Rank(square) = 2 /\ color = "White"
                              \/ Rank(square) = 7 /\ color = "Black"
                           /\ one \ occupied # {}
                        THEN one \cup Shift(square, 16 * shift_direction)
                        ELSE one
             IN  two \ occupied
        ELSE attacks_from(board, square) \ occupied

\* Mutant of is_promotion: the ranks are those of the other colour.
is_promotion_Inverted(position, square) ==
    /\ role_at(position.board, square) = "Pawn"
    /\ \/ Rank(square) = 2 /\ position.turn = "White"
       \/ Rank(square) = 7 /\ position.turn = "Black"
    /\ canmv_to(position, square) \ occupied_of(position.board) # {}

\* Lines 142-160: the flag is_promotion.
is_promotion(position, square) ==
    /\ role_at(position.board, square) = "Pawn"
    /\ \/ Rank(square) = 2 /\ position.turn = "Black"
       \/ Rank(square) = 7 /\ position.turn = "White"
    /\ canmv_to(position, square) \ occupied_of(position.board) # {}

get_rgb(position, st) ==
    LET color    == position.turn
        board    == position.board
        occupied == occupied_of(board)
        enemies  == by_color(board, Other(color))
    IN  CASE st.tag = "Idle" -> RGB({}, {}, {})
          [] st.tag = "FriendlyPU" ->
                IF role_at(board, st.a) = "None" THEN RgbPanic
                ELSE LET can_capture == attacks_from(board, st.a) \cap enemies
                     IN  IF is_promotion(position, st.a)
                         THEN RGB(canmv_to(position, st.a) \cup can_capture,
                                  can_capture, canmv_to(position, st.a))
                         ELSE RGB(can_capture,
                                  canmv_to(position, st.a) \cup can_capture, {})
          [] st.tag = "EnemyPU" ->
                RGB({}, attacks_to(board, st.a, color, occupied), {})
          [] st.tag = "FriendlyAndEnemyPU" -> RGB({}, {st.b}, {})
          [] st.tag = "Castling" ->
                LET target_square ==
                        IF color = "White"
                        THEN (IF st.b = A1 THEN C1 ELSE G1)
                        ELSE (IF st.b = A8 THEN C8 ELSE G8)
                IN  RGB({target_square}, {}, {target_square})
          [] st.tag = "CastlingPutRookDown" -> RGB({st.c}, {}, {st.c})
          [] st.tag \in {"InvalidPiecePU", "InvalidMove"} -> RGB({st.b}, {}, {})
          [] OTHER -> RGB(Squares, {}, {})

(***************************************************************************)
(* Positions.  Default is Chess::default(); the others are legal positions *)
(* of play in which the cases of update_state occur.                       *)
(***************************************************************************)
MkBoard(w, b) ==
    [s \in Squares |-> IF s \in DOMAIN w THEN Pc("White", w[s])
                       ELSE IF s \in DOMAIN b THEN Pc("Black", b[s])
                       ELSE Empty]

MkPos(w, b, turn, castles, ep) ==
    [board |-> MkBoard(w, b), turn |-> turn, castles |-> castles, ep |-> ep]

BackRank == <<"Rook", "Knight", "Bishop", "Queen", "King", "Bishop", "Knight", "Rook">>

Default ==
    [board |-> [s \in Squares |->
                    CASE Rank(s) = 1 -> Pc("White", BackRank[File(s)])
                      [] Rank(s) = 2 -> Pc("White", "Pawn")
                      [] Rank(s) = 7 -> Pc("Black", "Pawn")
                      [] Rank(s) = 8 -> Pc("Black", BackRank[File(s)])
                      [] OTHER -> Empty],
     turn |-> "White",
     castles |-> {Sq(1, 1), Sq(8, 1), Sq(1, 8), Sq(8, 8)},
     ep |-> NoSquare]

\* Both sides may castle on both wings; the a-file rooks face each other.
CastleBoardW == Sq(5, 1) :> "King" @@ Sq(1, 1) :> "Rook" @@ Sq(8, 1) :> "Rook"
                @@ Sq(8, 2) :> "Pawn"

CastleBoardB == Sq(5, 8) :> "King" @@ Sq(1, 8) :> "Rook" @@ Sq(8, 8) :> "Rook"
                @@ Sq(8, 7) :> "Pawn"

PosCastleWhite ==
    MkPos(CastleBoardW, CastleBoardB, "White",
          {Sq(1, 1), Sq(8, 1), Sq(1, 8), Sq(8, 8)}, NoSquare)

PosCastleBlack ==
    MkPos(CastleBoardW, CastleBoardB, "Black",
          {Sq(1, 1), Sq(8, 1), Sq(1, 8), Sq(8, 8)}, NoSquare)

\* White pawn on e5, Black has just played d7-d5: exd6 en passant is legal.
PosEnPassant ==
    MkPos(Sq(5, 1) :> "King" @@ Sq(5, 5) :> "Pawn" @@ Sq(1, 2) :> "Pawn",
          Sq(5, 8) :> "King" @@ Sq(4, 5) :> "Pawn" @@ Sq(6, 7) :> "Pawn",
          "White", {}, Sq(4, 6))

\* White pawn on b7 may push to b8 or take the rook on a8; the bishop on c4
\* may take the knight on f7; the knight on d2, which attacks the pawn on
\* b3, is pinned by the rook on d8.
PosPromotion ==
    MkPos(Sq(4, 1) :> "King" @@ Sq(2, 7) :> "Pawn" @@ Sq(3, 4) :> "Bishop"
            @@ Sq(4, 2) :> "Knight",
          Sq(8, 8) :> "King" @@ Sq(1, 8) :> "Rook" @@ Sq(6, 7) :> "Knight"
            @@ Sq(4, 8) :> "Rook" @@ Sq(2, 3) :> "Pawn",
          "White", {}, NoSquare)

\* Black to move: the pawn on g2 may push to g1 or take on h1; the white
\* king stands next to a defended and an undefended black piece.
PosBlack ==
    MkPos(Sq(5, 1) :> "King" @@ Sq(8, 1) :> "Knight" @@ Sq(1, 4) :> "Rook"
            @@ Sq(3, 3) :> "Pawn",
          Sq(5, 8) :> "King" @@ Sq(7, 2) :> "Pawn" @@ Sq(1, 8) :> "Rook"
            @@ Sq(2, 4) :> "Bishop",
          "Black", {}, NoSquare)

\* White to move: the king on e1 attacks the knight on f2, which the bishop
\* on c5 defends, and the undefended pawn on d2.
PosKing ==
    MkPos(Sq(5, 1) :> "King" @@ Sq(7, 1) :> "Knight" @@ Sq(1, 2) :> "Pawn",
          Sq(7, 8) :> "King" @@ Sq(6, 2) :> "Knight" @@ Sq(3, 5) :> "Bishop"
            @@ Sq(4, 2) :> "Pawn" @@ Sq(8, 4) :> "Pawn",
          "White", {}, NoSquare)

\* The king on e1 attacks the undefended rook on d2; the pawn on b7 cannot
\* push, the knight on b8 stands in its way, but may take the bishop on c8.
PosBlocked ==
    MkPos(Sq(5, 1) :> "King" @@ Sq(2, 7) :> "Pawn" @@ Sq(1, 2) :> "Pawn",
          Sq(7, 8) :> "King" @@ Sq(4, 2) :> "Rook" @@ Sq(2, 8) :> "Knight"
            @@ Sq(3, 8) :> "Bishop",
          "White", {}, NoSquare)

Positions == {Default, PosCastleWhite, PosCastleBlack, PosEnPassant,
              PosPromotion, PosBlack, PosKing, PosBlocked}

(***************************************************************************)
(* The FSM driven by square events on a fixed position: update_state as    *)
(* the pure function it is.  hist keeps the tags of the states the last    *)
(* three events were sent in.                                              *)
(***************************************************************************)
Push(h, t) == IF Len(h) < 3 THEN Append(h, t) ELSE Append(Tail(h), t)

\* The squares whose reed switch has changed state an odd number of times in
\* the event sequence being read: the sequence starts again at the event after
\* a returned move, and is dropped once the FSM is in Error, where it stays.
Toggle(sq, r) ==
    IF r.panic THEN toggled
    ELSE IF r.state.tag = "Error" THEN {}
    ELSE IF mv # NoMove THEN {sq}
    ELSE (toggled \ {sq}) \cup ({sq} \ toggled)

InitCommon ==
    /\ mv = NoMove
    /\ hist = << >>
    /\ aborted = FALSE
    /\ plies = 0
    /\ captured_whites = 0
    /\ captured_blacks = 0
    /\ opp_mv = NoMove
    /\ steps = << >>
    /\ sent = 0
    /\ recvd = 0
    /\ line = ""
    /\ move_san = NoSan
    /\ toggled = {}

InitFSM ==
    /\ pos \in Positions
    /\ state = Idle
    /\ pc = "fsm"
    /\ user_input = "params"
    /\ InitCommon

FsmEvent(sq) ==
    /\ pc = "fsm"
    /\ ~aborted
    /\ \E r \in {update_state(pos, sq, state)} :
           /\ state' = (IF r.panic THEN state ELSE r.state)
           /\ mv' = (IF r.panic THEN mv ELSE r.mv)
           /\ aborted' = r.panic
           /\ toggled' = Toggle(sq, r)
    /\ hist' = Push(hist, state.tag)
    /\ UNCHANGED <<pos, pc, plies, captured_whites, captured_blacks,
                   opp_mv, steps, sent, recvd, user_input, line, move_san>>

NextFSM == \E sq \in Squares : FsmEvent(sq)

SpecFSM == InitFSM /\ [][NextFSM]_vars

(***************************************************************************)
(* update_state on any state value: the state is drawn from every variant  *)
(* with squares of ArgSquares as arguments, and one event is applied.       *)
(***************************************************************************)
NumArgSquares == 4

\* e1, e4, e8, a1, d5, h8: squares that are occupied in some positions and
\* empty in others.
ArgOrder == <<Sq(5, 1), Sq(5, 4), Sq(5, 8), Sq(1, 1), Sq(4, 5), Sq(8, 8)>>

ArgSquares == {ArgOrder[i] : i \in {j \in 1 .. Len(ArgOrder) : j <= NumArgSquares}}

AnyStates ==
    {Idle, Error}
    \cup {FriendlyPU(a) : a \in ArgSquares}
    \cup {EnemyPU(a) : a \in ArgSquares}
    \cup {FriendlyAndEnemyPU(a, b) : a \in ArgSquares, b \in ArgSquares}
    \cup {Castling(a, b) : a \in ArgSquares, b \in ArgSquares}
    \cup {CastlingPutRookDown(a, b, c) : a \in ArgSquares, b \in ArgSquares, c \in ArgSquares}
    \cup {InvalidPiecePU(a, b) : a \in ArgSquares \cup {NoSquare}, b \in ArgSquares}
    \cup {InvalidMove(a, b) : a \in ArgSquares, b \in ArgSquares}

InitAny ==
    /\ pos \in Positions
    /\ state \in AnyStates
    /\ pc = "call"
    /\ user_input = "params"
    /\ InitCommon

AnyEvent(sq) ==
    /\ pc = "call"
    /\ \E r \in {update_state(pos, sq, state)} :
           /\ state' = (IF r.panic THEN state ELSE r.state)
           /\ mv' = (IF r.panic THEN mv ELSE r.mv)
           /\ aborted' = r.panic
           /\ toggled' = Toggle(sq, r)
    /\ hist' = Push(hist, state.tag)
    /\ pc' = "returned"
    /\ UNCHANGED <<pos, plies, captured_whites, captured_blacks,
                   opp_mv, steps, sent, recvd, user_input, line, move_san>>

NextAny == \E sq \in Squares : AnyEvent(sq)

SpecAny == InitAny /\ [][NextAny]_vars

(***************************************************************************)
(* Path planner.  Coordinates are kept in half squares (twice the f64 of   *)
(* the code), which holds every value the planner computes exactly.        *)
(***************************************************************************)
file_to_float(s) == 2 * File(s)

rank_to_float(s) == 2 * Rank(s)

Step(x, y, magnet) == [x |-> x, y |-> y, magnet |-> magnet]

\* Mutant of capture_piece: the half square that centres a piece on its
\* storage row is left out.
capture_piece_Uncentred(from_x, from_y, current_color, cw, cb) ==
    IF current_color = "White"
    THEN LET direction == IF cb < from_y THEN 0 - 1 ELSE 1
         IN  << Step(from_x, from_y, FALSE),
                Step(from_x, from_y + direction, TRUE),
                Step(17, from_y + direction, TRUE),
                Step(17, cb, TRUE),
                Step(18, cb, TRUE) >>
    ELSE LET direction == IF 17 - cw < from_y THEN 0 - 1 ELSE 1
         IN  << Step(from_x, from_y, FALSE),
                Step(from_x, from_y + direction, TRUE),
                Step(1, from_y + direction, TRUE),
                Step(1, 16 - cw, TRUE),
                Step(0, 16 - cw, TRUE) >>

capture_piece(from_x, from_y, current_color, cw, cb) ==
    IF current_color = "White"
    THEN LET direction == IF cb < from_y THEN 0 - 1 ELSE 1
         IN  << Step(from_x, from_y, FALSE),
                Step(from_x, from_y + direction, TRUE),
                Step(17, from_y + direction, TRUE),
                Step(17, 1 + cb, TRUE),
                Step(18, 1 + cb, TRUE) >>
    ELSE LET direction == IF 17 - cw < from_y THEN 0 - 1 ELSE 1
         IN  << Step(from_x, from_y, FALSE),
                Step(from_x, from_y + direction, TRUE),
                Step(1, from_y + direction, TRUE),
                Step(1, 17 - cw, TRUE),
                Step(0, 17 - cw, TRUE) >>

\* Mutant of CastleSteps: the rook is dragged along its rank, not along the
\* edge of the board.
CastleSteps_NoDetour(from_x, from_y, to_x, to_y, current_color) ==
    LET offset == IF to_x = 16 THEN 0 - 2 ELSE 2
        queenside_king == IF to_x = 16 THEN 0 ELSE 2
    IN  << Step(from_x, from_y, FALSE),
           Step(to_x + offset + queenside_king, to_y, TRUE),
           Step(to_x, to_y, FALSE),
           Step(to_x, to_y, TRUE),
           Step(from_x - offset, to_y, TRUE),
           Step(from_x - offset, from_y, TRUE) >>

\* Mutant of CastleSteps: the extra square of the queenside is forgotten.
CastleSteps_NoQueensideKing(from_x, from_y, to_x, to_y, current_color) ==
    LET direction == IF current_color = "White" THEN 0 - 1 ELSE 1
        offset == IF to_x = 16 THEN 0 - 2 ELSE 2
    IN  << Step(from_x, from_y, FALSE),
           Step(to_x + offset, to_y, TRUE),
           Step(to_x, to_y, FALSE),
           Step(to_x, to_y + direction, TRUE),
           Step(from_x - offset, to_y + direction, TRUE),
           Step(from_x - offset, from_y, TRUE) >>

\* move_to_steps, lines 566-615: the steps of a castle.
CastleSteps(from_x, from_y, to_x, to_y, current_color) ==
    LET direction == IF current_color = "White" THEN 0 - 1 ELSE 1
        offset == IF to_x = 16 THEN 0 - 2 ELSE 2
        queenside_king == IF to_x = 16 THEN 0 ELSE 2
    IN  << Step(from_x, from_y, FALSE),
           Step(to_x + offset + queenside_king, to_y, TRUE),
           Step(to_x, to_y, FALSE),
           Step(to_x, to_y + direction, TRUE),
           Step(from_x - offset, to_y + direction, TRUE),
           Step(from_x - offset, from_y, TRUE) >>

\* Mutant of KnightPath: the knight leaves along its file, not along its rank.
KnightPath_FileFirst(from_x, from_y, to_x, to_y) ==
    << Step(from_x, (from_y + to_y) \div 2, TRUE),
       Step(to_x, (from_y + to_y) \div 2, TRUE),
       Step(to_x, to_y, TRUE) >>

\* move_to_steps, lines 647-667: the three steps of a knight.
KnightPath(from_x, from_y, to_x, to_y) ==
    << Step((from_x + to_x) \div 2, from_y, TRUE),
       Step((from_x + to_x) \div 2, to_y, TRUE),
       Step(to_x, to_y, TRUE) >>

move_to_steps(m, current_color, cw, cb) ==
    LET from_x == file_to_float(m.from)
        from_y == rank_to_float(m.from)
        to_x   == file_to_float(m.to)
        to_y   == rank_to_float(m.to)
    IN  IF m.kind = "Castle"
        THEN CastleSteps(from_x, from_y, to_x, to_y, current_color)
        ELSE LET ep == IF m.kind = "EnPassant"
                       THEN capture_piece(to_x,
                                to_y + (IF current_color = "White" THEN 0 - 2 ELSE 2),
                                current_color, cw, cb)
                       ELSE << >>
                 cap == IF m.capture # "None" /\ m.kind # "EnPassant"
                        THEN capture_piece(to_x, to_y, current_color, cw, cb)
                        ELSE << >>
                 engage == << Step(from_x, from_y, FALSE) >>
                 path == IF m.role = "Knight"
                         THEN KnightPath(from_x, from_y, to_x, to_y)
                         ELSE << Step(to_x, to_y, TRUE) >>
             IN  ep \o cap \o engage \o path

(***************************************************************************)
(* Position::is_game_over: no legal move, or insufficient material.        *)
(***************************************************************************)
DarkSquares == {s \in Squares : (File(s) + Rank(s)) % 2 = 0}

has_insufficient_material(board, c) ==
    LET mine   == by_color(board, c)
        theirs == by_color(board, Other(c))
        of(rs) == {s \in Squares : board[s].role \in rs}
    IN  IF mine \cap of({"Pawn", "Rook", "Queen"}) # {} THEN FALSE
        ELSE IF mine \cap of({"Knight"}) # {}
        THEN Cardinality(mine) <= 2 /\ theirs \ of({"King", "Queen"}) = {}
        ELSE IF mine \cap of({"Bishop"}) # {}
        THEN /\ (of({"Bishop"}) \cap DarkSquares = {}
                 \/ of({"Bishop"}) \ DarkSquares = {})
             /\ of({"Pawn"}) = {} /\ of({"Knight"}) = {}
        ELSE TRUE

is_game_over(p) ==
    \/ no_legal_moves(p)
    \/ (has_insufficient_material(p.board, "White")
        /\ has_insufficient_material(p.board, "Black"))

(***************************************************************************)
(* main: the game loop.  pc is the place the loop stands at: "top" (line   *)
(* 74), "read" (the read of a reed-switch line, 84), "recv" (the read of   *)
(* the opponent's line, 108), "done" (after the break of line 76).  plies   *)
(* counts the passes of the outer loop, which MaxPlies bounds.             *)
(***************************************************************************)
MaxPlies == 3

NumEventSquares == 4

\* e2, e4, d7, d5, then e7, e5.
EventOrder == <<Sq(5, 2), Sq(5, 4), Sq(4, 7), Sq(4, 5), Sq(5, 7), Sq(5, 5)>>

EventSquares ==
    {EventOrder[i] : i \in {j \in 1 .. Len(EventOrder) : j <= NumEventSquares}}

\* White mates with Qd5-d7.
PosMate ==
    MkPos(Sq(5, 6) :> "King" @@ Sq(4, 5) :> "Queen" @@ Sq(8, 6) :> "Bishop",
          Sq(5, 8) :> "King" @@ Sq(1, 7) :> "Pawn",
          "White", {}, NoSquare)

\* The king on e4 takes the last black piece on d5: king against king.
PosBare ==
    MkPos(Sq(5, 4) :> "King", Sq(8, 8) :> "King" @@ Sq(4, 5) :> "Pawn",
          "White", {}, NoSquare)

\* Two white rooks, on e2 and a4, can both move to e4.
PosRooks ==
    MkPos(Sq(7, 1) :> "King" @@ Sq(5, 2) :> "Rook" @@ Sq(1, 4) :> "Rook",
          Sq(7, 8) :> "King" @@ Sq(1, 7) :> "Pawn",
          "White", {}, NoSquare)

\* The loop starts from Chess::default(); the other positions stand for the
\* top of the loop after earlier plies, where state is Idle again and the
\* counters are what the code has made of them.
GameStarts == {Default, PosMate, PosBare, PosRooks}

\* user_input holds the second answer of the handshake (lines 59-61): "EOT"
\* is the one-byte string "\x04", "params" any other answer.
Init ==
    /\ pos \in GameStarts
    /\ state = Idle
    /\ pc = "top"
    /\ user_input \in {"EOT", "params"}
    /\ InitCommon

\* Line 74-77: the game is over, the loop ends.
GameEnded ==
    /\ pc = "top"
    /\ ~aborted
    /\ is_game_over(pos)
    /\ pc' = "done"
    /\ opp_mv' = NoMove
    /\ steps' = << >>
    /\ UNCHANGED <<pos, state, mv, hist, aborted, plies, captured_whites,
                   captured_blacks, sent, recvd, user_input, line, move_san, toggled>>

\* Line 74, 78: the game goes on, the inner loop waits for an event.
EnterTurn ==
    /\ pc = "top"
    /\ ~aborted
    /\ ~is_game_over(pos)
    /\ plies < MaxPlies
    /\ plies' = plies + 1
    /\ pc' = "read"
    /\ opp_mv' = NoMove
    /\ steps' = << >>
    /\ UNCHANGED <<pos, state, mv, hist, aborted, captured_whites,
                   captured_blacks, sent, recvd, user_input, line, move_san, toggled>>

\* Lines 84-88: whatever the line read, the handshake answer "\x04" makes
\* main return.
ReadReturns ==
    /\ pc = "read"
    /\ ~aborted
    /\ user_input = "EOT"
    /\ line' \in {"square", "-1", "blank", "eof"}
    /\ pc' = "exit"
    /\ UNCHANGED <<pos, state, mv, hist, aborted, plies, captured_whites,
                   captured_blacks, opp_mv, steps, sent, recvd, user_input,
                   move_san, toggled>>

\* Lines 84-105: a square event is read and handed to update_state; a
\* returned move is played, its SAN is taken from the position played to and
\* sent, and the inner loop ends.
ReadEvent(sq) ==
    /\ pc = "read"
    /\ ~aborted
    /\ user_input # "EOT"
    /\ line' = "square"
    /\ \E r \in {update_state(pos, sq, state)} :
         /\ toggled' = Toggle(sq, r)
         /\ IF r.panic
           THEN /\ aborted' = TRUE
                /\ UNCHANGED <<pos, state, mv, hist, pc, plies, sent, move_san>>
           ELSE /\ state' = r.state
                /\ mv' = r.mv
                /\ hist' = Push(hist, state.tag)
                /\ IF r.mv = NoMove
                   THEN UNCHANGED <<pos, aborted, pc, plies, sent, move_san>>
                   ELSE IF is_legal(pos, r.mv)
                   THEN /\ pos' = play(pos, r.mv)
                        /\ move_san' = San_from_move(pos', r.mv)
                        /\ sent' = sent + 1
                        /\ pc' = "recv"
                        /\ UNCHANGED <<aborted, plies>>
                   ELSE /\ aborted' = TRUE
                        /\ UNCHANGED <<pos, pc, plies, sent, move_san>>
    /\ UNCHANGED <<captured_whites, captured_blacks, opp_mv, steps, recvd,
                   user_input>>

\* Lines 91-93: the sentinel -1 ends the inner loop.
ReadSentinel ==
    /\ pc = "read"
    /\ ~aborted
    /\ user_input # "EOT"
    /\ line' = "-1"
    /\ pc' = "recv"
    /\ UNCHANGED <<pos, state, mv, hist, aborted, plies, captured_whites,
                   captured_blacks, opp_mv, steps, sent, recvd, user_input,
                   move_san, toggled>>

\* Lines 84-96: at end of file read_line leaves line empty, and a blank line
\* trims to the empty string: parse::<u32>().unwrap() panics.
ReadBlank ==
    /\ pc = "read"
    /\ ~aborted
    /\ user_input # "EOT"
    /\ line' \in {"blank", "eof"}
    /\ aborted' = TRUE
    /\ UNCHANGED <<pos, state, mv, hist, pc, plies, captured_whites,
                   captured_blacks, opp_mv, steps, sent, recvd, user_input,
                   move_san, toggled>>

\* Lines 108-116: the opponent's line is read and parsed against pos, and
\* its steps are planned.
RecvOpponent ==
    /\ pc = "recv"
    /\ ~aborted
    /\ \E m \in legal_moves(pos) :
          /\ opp_mv' = m
          /\ steps' = move_to_steps(m, pos.turn, captured_whites, captured_blacks)
    /\ recvd' = recvd + 1
    /\ pc' = "top"
    /\ UNCHANGED <<pos, state, mv, hist, aborted, plies, captured_whites,
                   captured_blacks, sent, user_input, line, move_san, toggled>>

\* Lines 108-110: no line of the opponent is a legal move of pos (the
\* position has none), or the stream has ended: expect/unwrap panic.
RecvFails ==
    /\ pc = "recv"
    /\ ~aborted
    /\ no_legal_moves(pos)
    /\ aborted' = TRUE
    /\ recvd' = recvd + 1
    /\ UNCHANGED <<pos, state, mv, hist, pc, plies, captured_whites,
                   captured_blacks, opp_mv, steps, sent, user_input, line,
                   move_san, toggled>>

Next ==
    \/ GameEnded
    \/ EnterTurn
    \/ ReadReturns
    \/ \E sq \in EventSquares : ReadEvent(sq)
    \/ ReadSentinel
    \/ ReadBlank
    \/ RecvOpponent
    \/ RecvFails

Spec == Init /\ [][Next]_vars

(***************************************************************************)
(* move_to_steps as the pure function it is: the move is a legal move of a  *)
(* position, as main passes it (lines 110-115), and the counters are drawn  *)
(* from 0 .. MaxCaptured.                                                  *)
(***************************************************************************)
MaxCaptured == 15

\* The knights on f3 and e5 attack each other.
PosKnights ==
    MkPos(Sq(7, 1) :> "King" @@ Sq(6, 3) :> "Knight" @@ Sq(1, 2) :> "Pawn",
          Sq(7, 8) :> "King" @@ Sq(5, 5) :> "Knight" @@ Sq(1, 7) :> "Pawn",
          "White", {}, NoSquare)

\* Black pawn on d4, White has just played e2-e4: dxe3 en passant is legal.
PosEnPassantBlack ==
    MkPos(Sq(5, 1) :> "King" @@ Sq(5, 4) :> "Pawn",
          Sq(5, 8) :> "King" @@ Sq(4, 4) :> "Pawn",
          "Black", {}, Sq(5, 3))

PlanPositions ==
    Positions \cup {PosMate, PosBare, PosRooks, PosKnights,
                    [PosKnights EXCEPT !.turn = "Black"], PosEnPassantBlack}

InitPlan ==
    /\ pos \in PlanPositions
    /\ opp_mv \in legal_moves(pos)
    /\ captured_whites \in 0 .. MaxCaptured
    /\ captured_blacks \in 0 .. MaxCaptured
    /\ state = Idle
    /\ mv = NoMove
    /\ hist = << >>
    /\ aborted = FALSE
    /\ plies = 0
    /\ steps = << >>
    /\ sent = 0
    /\ recvd = 0
    /\ line = ""
    /\ move_san = NoSan
    /\ toggled = {}
    /\ user_input = "params"
    /\ pc = "plan"

\* Line 115: the steps of the move are planned.
PlanMove ==
    /\ pc = "plan"
    /\ steps' = move_to_steps(opp_mv, pos.turn, captured_whites, captured_blacks)
    /\ pc' = "planned"
    /\ UNCHANGED <<pos, state, mv, hist, aborted, plies, captured_whites,
                   captured_blacks, opp_mv, sent, recvd, user_input, line,
                   move_san, toggled>>

NextPlan == PlanMove

SpecPlan == InitPlan /\ [][NextPlan]_vars

(***************************************************************************)
(* The gantry that consumes the steps: the carriage moves to each step's   *)
(* point in turn; with the magnet off it moves alone, with the magnet on   *)
(* it drags the piece that stands where the carriage is.  Points are in    *)
(* half squares; a piece is a record of its point and what it is.          *)
(***************************************************************************)
Centre(s) == <<2 * File(s), 2 * Rank(s)>>

Physical(board) ==
    {[at |-> Centre(s), piece |-> board[s]] : s \in occupied_of(board)}

\* The point p lies on the straight path from a to b, a itself excepted.
OnPath(p, a, b) ==
    /\ p # a
    /\ (p[1] - a[1]) * (b[2] - a[2]) = (p[2] - a[2]) * (b[1] - a[1])
    /\ (p[1] - a[1]) * (p[1] - b[1]) <= 0
    /\ (p[2] - a[2]) * (p[2] - b[2]) <= 0

\* The pieces after the steps ss, from the pieces phys and the carriage at
\* the point carriage; hit tells whether a dragged piece met another one.
RECURSIVE Execute(_, _, _, _)
Execute(phys, carriage, ss, hit) ==
    IF ss = << >> THEN [phys |-> phys, carriage |-> carriage, hit |-> hit]
    ELSE LET target == <<Head(ss).x, Head(ss).y>>
             held   == IF Head(ss).magnet THEN {q \in phys : q.at = carriage} ELSE {}
             others == phys \ held
             met    == held # {} /\ \E q \in others : OnPath(q.at, carriage, target)
             moved  == {[at |-> target, piece |-> q.piece] : q \in held}
         IN  Execute(others \cup moved, target, Tail(ss), hit \/ met)

\* The carriage rests at the corner of the table before the first step.
Executed(board, ss) == Execute(Physical(board), <<0, 0>>, ss, FALSE)

(***************************************************************************)
(* Properties.                                                             *)
(***************************************************************************)
Invalid == {"InvalidPiecePU", "InvalidMove", "Error"}

\* The last tags of hist are those of ts.
HistEnds(ts) ==
    /\ Len(hist) >= Len(ts)
    /\ \A i \in 1 .. Len(ts) : hist[Len(hist) - Len(ts) + i] = ts[i]

\* C1: every move update_state returns is legal in the position passed in.
CommitImpliesLegal == mv # NoMove => is_legal(pos, mv)

\* C2: update_state returns for every state value and event; no unwrap panics.
NeverAborts == ~aborted

\* C3: from Idle, FriendlyPU(p) or EnemyPU(p), an event e that leads to
\* InvalidPiecePU(_, e) is undone by e (the state is restored, no move), and
\* an event t that leads from FriendlyPU(f) to InvalidMove(f, t) is undone by t.
RecoveryRoundTrip ==
    state.tag \in {"Idle", "FriendlyPU", "EnemyPU"} =>
        \A e \in Squares :
            LET r == update_state(pos, e, state)
            IN  /\ ~r.panic
                /\ (r.state.tag = "InvalidPiecePU" /\ r.state.b = e)
                      => update_state(pos, e, r.state) = Ret(state, NoMove)
                /\ (state.tag = "FriendlyPU" /\ r.state = InvalidMove(state.a, e))
                      => update_state(pos, e, r.state) = Ret(FriendlyPU(state.a), NoMove)

\* C3 witness: EnemyPU was left for InvalidPiecePU and restored by the next event.
RecoveredEnemyPU ==
    /\ HistEnds(<<"EnemyPU", "InvalidPiecePU">>)
    /\ state.tag = "EnemyPU"
    /\ mv = NoMove

\* C4: sending a lifted square again emits no move and leads to a less
\* committed state that is not Error: FriendlyPU(s) and EnemyPU(s) to Idle,
\* FriendlyAndEnemyPU(f, e) on f to EnemyPU(e), Castling(k, r) on k or r to a
\* state with one piece lifted.
PutBackSymmetry ==
    /\ state.tag \in {"FriendlyPU", "EnemyPU"}
          => update_state(pos, state.a, state) = Ret(Idle, NoMove)
    /\ state.tag = "FriendlyAndEnemyPU"
          => update_state(pos, state.a, state) = Ret(EnemyPU(state.b), NoMove)
    /\ state.tag = "Castling"
          => \A e \in {state.a, state.b} :
                LET r == update_state(pos, e, state)
                IN  r.mv = NoMove /\ ~r.panic /\ r.state.tag = "FriendlyPU"

\* C5: once update_state has returned Error, every event returns (Error, None).
ErrorAbsorbing == [][state.tag = "Error" => (state' = Error /\ mv' = NoMove)]_vars

\* C5 witness: an event was sent in Error.
EventInError == HistEnds(<<"Error">>) /\ state = Error

\* C6: where an en passant capture f to t is legal, the events f, victim
\* square, t from Idle return the en passant move and Idle, through no
\* InvalidPiecePU, InvalidMove or Error.
EnPassantCommits ==
    state = Idle =>
        \A f \in Squares, t \in Squares :
            is_legal(pos, EnPassant(f, t)) =>
                LET r1 == update_state(pos, f, Idle)
                    r2 == update_state(pos, Sq(File(t), Rank(f)), r1.state)
                    r3 == update_state(pos, t, r2.state)
                IN  /\ r1.state.tag \notin Invalid
                    /\ r2.state.tag \notin Invalid
                    /\ r3 = Ret(Idle, EnPassant(f, t))

\* C7: for an enemy square e attacked by a friendly piece on f that is no
\* king, the events e, f, e from Idle lead through EnemyPU(e) and
\* FriendlyAndEnemyPU(f, e) to Idle with the capturing move of f on e, a
\* queen promotion exactly for a pawn reaching the first or eighth rank.
EnemyFirstCapture ==
    state = Idle =>
        \A e \in by_color(pos.board, Other(pos.turn)) :
            \A f \in attacks_to(pos.board, e, pos.turn, occupied_of(pos.board)) :
                role_at(pos.board, f) # "King" =>
                    LET r1 == update_state(pos, e, Idle)
                        r2 == update_state(pos, f, r1.state)
                        r3 == update_state(pos, e, r2.state)
                    IN  /\ r1 = Ret(EnemyPU(e), NoMove)
                        /\ r2 = Ret(FriendlyAndEnemyPU(f, e), NoMove)
                        /\ r3 = Ret(Idle,
                                    Normal(role_at(pos.board, f), f, role_at(pos.board, e), e,
                                           IF role_at(pos.board, f) = "Pawn"
                                              /\ Rank(e) \in {1, 8}
                                           THEN "Queen" ELSE "None"))

\* C7 witness: a capture committed by the events enemy, friendly, enemy.
EnemyFirstCaptured ==
    /\ hist = <<"Idle", "EnemyPU", "FriendlyAndEnemyPU">>
    /\ state = Idle
    /\ mv.kind = "Normal"
    /\ mv.capture # "None"

\* C8: where Castle(k, r) is legal, k then r and r then k both lead from Idle
\* to Castling(k, r); in Castling only the king's landing square is accepted
\* and leads to CastlingPutRookDown with the rook's landing square; there
\* only that square is accepted and returns Idle with Castle(k, r); every
\* other event yields Error, and no move is returned before.
CastlingProtocol ==
    /\ state = Idle =>
          \A k \in Squares, r \in Squares :
              is_legal(pos, Castle(k, r)) =>
                  /\ update_state(pos, k, Idle) = Ret(FriendlyPU(k), NoMove)
                  /\ update_state(pos, r, Idle) = Ret(FriendlyPU(r), NoMove)
                  /\ update_state(pos, r, FriendlyPU(k)) = Ret(Castling(k, r), NoMove)
                  /\ update_state(pos, k, FriendlyPU(r)) = Ret(Castling(k, r), NoMove)
    /\ state.tag = "Castling" =>
          /\ is_legal(pos, Castle(state.a, state.b))
          /\ \A e \in Squares :
                update_state(pos, e, state) =
                    IF e = KingLanding(state.a, state.b)
                    THEN Ret(CastlingPutRookDown(state.a, state.b,
                                                 RookLanding(state.a, state.b)), NoMove)
                    ELSE Ret(Error, NoMove)
    /\ state.tag = "CastlingPutRookDown" =>
          /\ state.c = RookLanding(state.a, state.b)
          /\ \A e \in Squares :
                update_state(pos, e, state) =
                    IF e = state.c THEN Ret(Idle, Castle(state.a, state.b))
                    ELSE Ret(Error, NoMove)

\* C8 witness: a castle committed by its four events.
CastleCommitted ==
    /\ hist = <<"FriendlyPU", "Castling", "CastlingPutRookDown">>
    /\ state = Idle
    /\ mv.kind = "Castle"
    /\ is_legal(pos, mv)

\* C9: each capturing move the game loop commits raises the counter of the
\* captured colour by one and leaves the other counter alone; every other
\* step changes neither.
CaptureCounted ==
    [][IF pos' # pos /\ mv'.capture # "None"
       THEN IF pos.turn = "White"
            THEN captured_blacks' = captured_blacks + 1
                 /\ captured_whites' = captured_whites
            ELSE captured_whites' = captured_whites + 1
                 /\ captured_blacks' = captured_blacks
       ELSE captured_blacks' = captured_blacks
            /\ captured_whites' = captured_whites]_vars

\* C10: the opponent's move is played on the position when its line has been
\* read, before its steps are planned and the next event is read.
OpponentMoveCommitted ==
    [][(pc = "recv" /\ pc' = "top") => pos' = play(pos, opp_mv')]_vars

\* C11: the SAN line sent for a human move is that of the move in the
\* position before the move was played.
SanFromPreCommit ==
    [][sent' = sent + 1 => move_san' = San_from_move(pos, mv')]_vars

\* C12: a line of the opponent is read only when one SAN line is written and
\* not yet answered, the lines written less the lines read are 0 or 1, and
\* the sentinel changes neither the state nor the position.
StrictAlternation ==
    [][/\ recvd' # recvd => sent - recvd = 1
       /\ (sent' - recvd') \in {0, 1}
       /\ (pc = "read" /\ line' = "-1") => (state' = state /\ pos' = pos)]_vars

\* C13: in a position that is game over the loop does nothing but end: it
\* reads no further event and no further line of the opponent.
GameOverTerminates ==
    [][is_game_over(pos) => (pc' = "done" /\ recvd' = recvd /\ hist' = hist)]_vars

\* C14: end of file on the event stream in Idle ends the loop without abort,
\* and a blank event line is skipped: the loop reads on, nothing aborted.
EventStreamEndIsClean ==
    /\ (line = "eof" /\ state = Idle) => (~aborted /\ pc \in {"exit", "done"})
    /\ line = "blank" => (~aborted /\ pc = "read")

\* Planner coordinates of the claims, in half squares: x of a file, y of a rank.
HalfX(s) == 2 * File(s)

HalfY(s) == 2 * Rank(s)

\* C15: for a capturing move the first five steps carry the victim away:
\* magnet off at the victim's square (the destination; for en passant the
\* square one rank behind it), then magnet on, ending at (9.0, 0.5 +
\* captured_blacks/2) when White moves, at (0.0, 8.5 - captured_whites/2)
\* when Black moves; then come the capturer's steps, magnet off at its
\* origin first, and the last step is (to_x, to_y, magnet on).
PlannerCaptureAccounting ==
    (pc = "planned" /\ opp_mv.capture # "None") =>
        LET white == pos.turn = "White"
            victim_y == IF opp_mv.kind = "EnPassant"
                        THEN HalfY(opp_mv.to) + (IF white THEN 0 - 2 ELSE 2)
                        ELSE HalfY(opp_mv.to)
            n == Len(steps)
        IN  /\ n >= 7
            /\ steps[1] = Step(HalfX(opp_mv.to), victim_y, FALSE)
            /\ \A i \in 2 .. 5 : steps[i].magnet
            /\ steps[5] = (IF white THEN Step(18, 1 + captured_blacks, TRUE)
                           ELSE Step(0, 17 - captured_whites, TRUE))
            /\ steps[6] = Step(HalfX(opp_mv.from), HalfY(opp_mv.from), FALSE)
            /\ \A i \in 7 .. n : steps[i].magnet
            /\ steps[n] = Step(HalfX(opp_mv.to), HalfY(opp_mv.to), TRUE)

\* C15 witness: an en passant capture by Black planned with three white
\* pieces captured before.
EnPassantPlanned ==
    /\ pc = "planned"
    /\ opp_mv.kind = "EnPassant"
    /\ pos.turn = "Black"
    /\ captured_whites = 3
    /\ Len(steps) = 7
    /\ steps[5] = Step(0, 14, TRUE)

\* C16 as stated: for every knight move the second and the third step have
\* x = (from_x + to_x)/2.
KnightCorridorAlways ==
    (pc = "planned" /\ opp_mv.role = "Knight") =>
        /\ steps[2].x = File(opp_mv.from) + File(opp_mv.to)
        /\ steps[3].x = File(opp_mv.from) + File(opp_mv.to)

\* C16 amended: the two steps that follow the magnet-off step at the knight's
\* origin have x = (from_x + to_x)/2: the second and third step of a knight
\* move that does not capture, the seventh and eighth of one that does.
KnightCorridor ==
    (pc = "planned" /\ opp_mv.role = "Knight") =>
        LET k == IF opp_mv.capture # "None" THEN 5 ELSE 0
        IN  /\ Len(steps) = k + 4
            /\ steps[k + 1] = Step(HalfX(opp_mv.from), HalfY(opp_mv.from), FALSE)
            /\ steps[k + 2].x = File(opp_mv.from) + File(opp_mv.to)
            /\ steps[k + 3].x = File(opp_mv.from) + File(opp_mv.to)
            /\ steps[k + 2].magnet /\ steps[k + 3].magnet

\* C16 witness: a capturing knight move planned in nine steps.
KnightCapturePlanned ==
    /\ pc = "planned"
    /\ opp_mv.role = "Knight"
    /\ opp_mv.capture # "None"
    /\ Len(steps) = 9

Magnets(ss) == [i \in 1 .. Len(ss) |-> ss[i].magnet]

\* C17 as stated: a castle is planned in 6 steps, magnets off, on, off, on,
\* on, on, and the last step is at the king's landing square.
CastlePlanEndsAtKing ==
    (pc = "planned" /\ opp_mv.kind = "Castle") =>
        /\ Len(steps) = 6
        /\ Magnets(steps) = <<FALSE, TRUE, FALSE, TRUE, TRUE, TRUE>>
        /\ steps[6] = Step(HalfX(KingLanding(opp_mv.from, opp_mv.to)),
                           HalfY(KingLanding(opp_mv.from, opp_mv.to)), TRUE)

\* C17 amended: a castle is planned in 6 steps, magnets off, on, off, on, on,
\* on; the second step drags the king to its landing square (g- or c-file
\* of its home rank) and the last step is at the rook's landing square (f-
\* or d-file of that rank).
CastlePlanShape ==
    (pc = "planned" /\ opp_mv.kind = "Castle") =>
        /\ Len(steps) = 6
        /\ Magnets(steps) = <<FALSE, TRUE, FALSE, TRUE, TRUE, TRUE>>
        /\ steps[1] = Step(HalfX(opp_mv.from), HalfY(opp_mv.from), FALSE)
        /\ steps[2] = Step(HalfX(KingLanding(opp_mv.from, opp_mv.to)),
                           HalfY(KingLanding(opp_mv.from, opp_mv.to)), TRUE)
        /\ steps[3] = Step(HalfX(opp_mv.to), HalfY(opp_mv.to), FALSE)
        /\ steps[6] = Step(HalfX(RookLanding(opp_mv.from, opp_mv.to)),
                           HalfY(RookLanding(opp_mv.from, opp_mv.to)), TRUE)

\* C17 witness: Black's queenside castle planned.
QueensideCastlePlanned ==
    /\ pc = "planned"
    /\ opp_mv = Castle(Sq(5, 8), Sq(1, 8))
    /\ Len(steps) = 6

\* C18: in FriendlyPU(prev) an event on an enemy square that the lifted
\* piece attacks returns FriendlyAndEnemyPU(prev, sq) and no move, whatever
\* the roles of the two pieces.
FriendlyFirstCapture ==
    state.tag = "FriendlyPU" =>
        \A sq \in attacks_from(pos.board, state.a)
                  \cap by_color(pos.board, Other(pos.turn)) :
            update_state(pos, sq, state)
                = Ret(FriendlyAndEnemyPU(state.a, sq), NoMove)

\* The clause of lines 341-344 decides: square holds the king of the side to
\* move, which attacks prev_square, and an enemy piece attacks prev_square.
KingCheckFires(p, sq, prev) ==
    /\ sq # prev
    /\ p.board[sq] = Pc(p.turn, "King")
    /\ sq \in attacks_to(p.board, prev, p.turn, occupied_of(p.board))
    /\ king_attackers(p.board, prev, Other(p.turn), occupied_of(p.board)) # {}

\* C19 as stated: in every reachable EnemyPU(prev) every event has the result
\* it would have with the King clause removed.
KingCheckDead ==
    state.tag = "EnemyPU" =>
        \A sq \in Squares :
            update_state(pos, sq, state) = FromEnemyPU_NoKingCheck(pos, sq, state.a)

\* C19 amended: the King clause decides exactly when the event is the square
\* of the own king, the king attacks prev and an enemy piece defends prev:
\* the result is then InvalidPiecePU(Some(prev), sq), where it would be
\* FriendlyAndEnemyPU(sq, prev) without the clause; every other event has the
\* result it would have without the clause.
KingCheckLive ==
    state.tag = "EnemyPU" =>
        \A sq \in Squares :
            IF KingCheckFires(pos, sq, state.a)
            THEN /\ update_state(pos, sq, state)
                        = Ret(InvalidPiecePU(state.a, sq), NoMove)
                 /\ FromEnemyPU_NoKingCheck(pos, sq, state.a)
                        = Ret(FriendlyAndEnemyPU(sq, state.a), NoMove)
            ELSE update_state(pos, sq, state)
                        = FromEnemyPU_NoKingCheck(pos, sq, state.a)

\* C19 witness: the king was lifted after a defended enemy piece it attacks,
\* and the capture was refused.
KingCaptureRefused ==
    /\ HistEnds(<<"Idle", "EnemyPU">>)
    /\ state.tag = "InvalidPiecePU"
    /\ state.a \in Squares
    /\ KingCheckFires(pos, state.b, state.a)

\* The rank from which a pawn of the side to move promotes by its next move.
PromotionRank(p) == IF p.turn = "White" THEN 7 ELSE 2

\* C20: in FriendlyPU(sq) with a pawn on the rank before promotion get_rgb
\* returns R = can_move_to \cup can_capture, G = can_capture, B =
\* can_move_to, also when the push square is occupied; in every other
\* FriendlyPU state it returns R = can_capture, G = can_move_to \cup
\* can_capture, B empty.
LedPromotionFlag ==
    state.tag = "FriendlyPU" =>
        LET can_move_to == canmv_to(pos, state.a)
            can_capture == attacks_from(pos.board, state.a)
                           \cap by_color(pos.board, Other(pos.turn))
        IN  get_rgb(pos, state) =
                IF /\ role_at(pos.board, state.a) = "Pawn"
                   /\ Rank(state.a) = PromotionRank(pos)
                THEN RGB(can_move_to \cup can_capture, can_capture, can_move_to)
                ELSE RGB(can_capture, can_move_to \cup can_capture, {})

\* C20 witness: the lifted pawn on b7 cannot push and may take on c8 only.
BlockedPromotionLit ==
    /\ state = FriendlyPU(Sq(2, 7))
    /\ pos = PosBlocked
    /\ canmv_to(pos, state.a) = {}
    /\ get_rgb(pos, state) = RGB({Sq(3, 8)}, {Sq(3, 8)}, {})

\* C21: the six steps of a castle, executed in order, leave the king on the
\* square the FSM accepts as the king's landing square in Castling(k, r) and
\* the rook on the square it then asks for in CastlingPutRookDown, every
\* other piece where it was, and no dragged piece meets another piece.
PhysicalCastleResult ==
    (pc = "planned" /\ opp_mv.kind = "Castle") =>
        LET done == Executed(pos.board, steps)
            king == [at |-> Centre(opp_mv.from), piece |-> Pc(pos.turn, "King")]
            rook == [at |-> Centre(opp_mv.to), piece |-> Pc(pos.turn, "Rook")]
            rest == Physical(pos.board) \ {king, rook}
        IN  /\ ~done.hit
            /\ \E e \in Squares :
                  update_state(pos, e, Castling(opp_mv.from, opp_mv.to)).state.tag
                      = "CastlingPutRookDown"
            /\ \A e \in Squares :
                  LET r == update_state(pos, e, Castling(opp_mv.from, opp_mv.to))
                  IN  r.state.tag = "CastlingPutRookDown" =>
                          done.phys = rest \cup
                              {[at |-> Centre(e), piece |-> king.piece],
                               [at |-> Centre(r.state.c), piece |-> rook.piece]}

\* C21 witness: White's kingside castle executed, king on g1 and rook on f1.
KingsideCastleExecuted ==
    /\ pc = "planned"
    /\ opp_mv = Castle(Sq(5, 1), Sq(8, 1))
    /\ Executed(pos.board, steps).phys
          = Physical(BoardAfter(pos.board, "White", opp_mv))
    /\ [at |-> Centre(G1), piece |-> Pc("White", "King")]
          \in Executed(pos.board, steps).phys
    /\ [at |-> Centre(F1), piece |-> Pc("White", "Rook")]
          \in Executed(pos.board, steps).phys


\* The occupancy of the physical board: the position's occupied set with each
\* square of the event sequence toggled.
PhysicalOccupancy ==
    (occupied_of(pos.board) \ toggled) \cup (toggled \ occupied_of(pos.board))

\* C22: toggle parity.  In Idle with no move returned the physical occupancy
\* is the position's occupied set, and at the event that returns a move the
\* move can be played and the physical occupancy is the occupied set of the
\* position it gives.
ToggleParity ==
    pc = "fsm" =>
        /\ (state = Idle /\ mv = NoMove) => PhysicalOccupancy = occupied_of(pos.board)
        /\ mv # NoMove =>
              /\ is_legal(pos, mv)
              /\ PhysicalOccupancy = occupied_of(play(pos, mv).board)

\* What does hold of the parity: in Idle with no move returned, and at every
\* returned move that can be played.
ToggleParityOfLegal ==
    pc = "fsm" =>
        /\ (state = Idle /\ mv = NoMove) => PhysicalOccupancy = occupied_of(pos.board)
        /\ (mv # NoMove /\ is_legal(pos, mv)) =>
              PhysicalOccupancy = occupied_of(play(pos, mv).board)

\* A capture returned after enemy, friendly, enemy: three events, two squares.
ToggleParityOfCapture ==
    /\ pc = "fsm" /\ mv # NoMove /\ is_legal(pos, mv)
    /\ mv.kind = "Normal" /\ mv.capture # Empty
    /\ toggled = {mv.from}


\* The squares get_rgb offers in FriendlyPU to put the piece on, and to take.
Offered_move(position, st) == canmv_to(position, st.a)

Offered_capture(position, st) ==
    attacks_from(position.board, st.a) \cap by_color(position.board, Other(position.turn))

Refused(r) == r.panic \/ r.state.tag \in {"InvalidMove", "InvalidPiecePU", "Error"}

\* C23: every square get_rgb offers as a next action is accepted by
\* update_state.  In FriendlyPU a square of can_move_to returns a move and a
\* square of can_capture leads to FriendlyAndEnemyPU; in EnemyPU a green
\* square leads to FriendlyAndEnemyPU; in FriendlyAndEnemyPU the green square
\* returns a move; in Castling and CastlingPutRookDown the red-and-blue square
\* advances the castle; in InvalidPiecePU and InvalidMove the red square
\* leaves the invalid state.
LedHintsAccepted ==
    (pc = "fsm" /\ ~aborted /\ ~get_rgb(pos, state).panic) =>
        LET rgb == get_rgb(pos, state)
        IN  CASE state.tag = "FriendlyPU" ->
                    /\ \A t \in Offered_move(pos, state) :
                           \E r \in {update_state(pos, t, state)} :
                               ~Refused(r) /\ r.mv # NoMove /\ r.state = Idle
                    /\ \A t \in Offered_capture(pos, state) :
                           \E r \in {update_state(pos, t, state)} :
                               ~Refused(r) /\ r.state = FriendlyAndEnemyPU(state.a, t)
              [] state.tag = "EnemyPU" ->
                    \A t \in rgb.g :
                        \E r \in {update_state(pos, t, state)} :
                            ~Refused(r) /\ r.state = FriendlyAndEnemyPU(t, state.a)
              [] state.tag = "FriendlyAndEnemyPU" ->
                    \A t \in rgb.g :
                        \E r \in {update_state(pos, t, state)} :
                            ~Refused(r) /\ r.mv # NoMove
              [] state.tag = "Castling" ->
                    \A t \in rgb.r \cap rgb.b :
                        \E r \in {update_state(pos, t, state)} :
                            ~Refused(r) /\ r.state.tag = "CastlingPutRookDown"
              [] state.tag = "CastlingPutRookDown" ->
                    \A t \in rgb.r \cap rgb.b :
                        \E r \in {update_state(pos, t, state)} :
                            ~Refused(r) /\ r.mv # NoMove
              [] state.tag \in {"InvalidPiecePU", "InvalidMove"} ->
                    \A t \in rgb.r :
                        \E r \in {update_state(pos, t, state)} :
                            ~Refused(r) /\ r.state.tag \in {"Idle", "FriendlyPU", "EnemyPU"}
              [] OTHER -> TRUE


\* C24: a returned move comes with the state Idle and the game loop stores
\* it: from the event that returns a move until the next event is handed to
\* update_state, the stored state is Idle, so the first event of the human
\* turn after a committed move is processed from Idle.
CommitResetsState ==
    mv # NoMove => state = Idle

\* C24 witness: the second human turn after one committed move and one
\* opponent line, its first event processed from Idle.
LaterTurnFromIdle ==
    /\ pc = "read" /\ ~aborted
    /\ plies = 2 /\ sent = 1 /\ recvd = 1
    /\ hist = <<"Idle", "FriendlyPU", "Idle">>
    /\ Cardinality(toggled) = 1
    /\ state.tag = "FriendlyPU" /\ mv = NoMove

====
